---- MODULE Spec2Model ----
(***************************************************************************)
(* The client-side session layer of ikozlov666/aiagent:                    *)
(*   - the connection manager, hook useWebSocket(projectId)                *)
(*     (src/frontend/src/hooks/useWebSocket.js), with its watchdog and     *)
(*     reconnect timers;                                                   *)
(*   - the protocol-handling slice of the zustand store                    *)
(*     (src/frontend/src/stores/useStore.js).                              *)
(*                                                                         *)
(* Everything runs on one event loop, so every handler is one atomic       *)
(* action.  The handlers are written as functions from a "world" record    *)
(* (the refs of the hook, the browser's sockets and timers, the store) to  *)
(* the world after the handler; an action applies one handler to the       *)
(* current values of the variables.                                        *)
(*                                                                         *)
(* The browser side follows the WHATWG WebSocket interface: readyState     *)
(* goes CONNECTING -> OPEN -> CLOSING -> CLOSED; close() on a CONNECTING   *)
(* or OPEN socket only moves it to CLOSING, the close event comes in a     *)
(* later task; message events are delivered only while readyState is OPEN; *)
(* the close event carries the code of the peer's Close frame (a peer      *)
(* echoes the code it was sent) or 1006 when the connection was lost.      *)
(* Timers are untimed: a pending timer may fire at any later step.  No two *)
(* timers of the hook are armed by the same handler, so every firing order *)
(* is one some timing of the events produces.                              *)
(***************************************************************************)
EXTENDS Integers, Sequences, FiniteSets, TLC

(***************************************************************************)
(* Bounds of the model.                                                    *)
(***************************************************************************)
MaxSockets == 2
MaxMessages == 2
MaxSteps == 1
MaxStream == 2
MaxTurnSteps == 2
MaxLateMessages == 4

(***************************************************************************)
(* Constants of the program.                                               *)
(***************************************************************************)
HEARTBEAT_TIMEOUT_MS == 45000
HEARTBEAT_CLOSE_CODE == 4000
NORMAL_CLOSE_CODE == 1000
HEARTBEAT_RECONNECT_MS == 1000
RECONNECT_MS == 5000
\* null, as the value of a ref that holds a socket or a timer id
Null == 0

\* the close code of a connection that was lost without a Close frame
AbnormalCodes == {1006}
\* close codes a peer may put in the Close frame it sends
PeerCloseCodes == {NORMAL_CLOSE_CODE, 1001}

\* project handles; NoHandle is the falsy projectId (null) before a project exists
NoHandle == ""
Handles == {"A", "B"}

(***************************************************************************)
(* Strings are sequences of characters, so that concatenation and trim are *)
(* computed.  Undefined is the value of a field the JSON object lacks.     *)
(***************************************************************************)
Undefined == <<"undefined">>
\* the placeholder text of handleMessage (a Russian "Thinking...") and the
\* fallback text of agent_stopped, transliterated
Placeholder == <<"Dumayu...">>
StoppedFallback == <<"Agent ostanovlen">>

\* x || '' for a string field x
OrEmpty(x) == IF x = Undefined THEN <<>> ELSE x

RECURSIVE TrimStart(_)
TrimStart(s) == IF s # <<>> /\ Head(s) = " " THEN TrimStart(Tail(s)) ELSE s

RECURSIVE TrimEnd(_)
TrimEnd(s) ==
    IF s # <<>> /\ s[Len(s)] = " " THEN TrimEnd(SubSeq(s, 1, Len(s) - 1)) ELSE s

\* String.prototype.trim
Trim(s) == TrimEnd(TrimStart(s))

VARIABLES
    \* the owning view and its prop
    phase,              \* "init" | "mounted" | "unmounted"
    projectId,          \* the handle of the last render
    \* refs of the hook
    wsRef,              \* socket id or Null
    reconnectTimeout,   \* timer id or Null
    heartbeatTimer,     \* timer id or Null (kept after the timer fired)
    isConnectingRef,    \* BOOLEAN
    \* the browser
    sockets,            \* sequence of sockets ever created, id = index
    timers,             \* set of pending timers
    \* the store
    ws, wsConnected, messages, streamingContent, liveAssistantContent,
    agentSteps, agentStatus, projectPorts,
    \* observation
    out,                \* frames put on the wire by the last step
    ev,                 \* the last step: operation, socket, close code
    tableStatus,        \* status by the dispatch table, see TableStatus
    chunkLog,           \* chunks since the last clearing event, see ChunkLog
    liveLog,            \* the live text by the dispatch table, see LiveLog
    stepLog             \* agent_step messages since the last turn, see StepLog

hookVars == <<wsRef, reconnectTimeout, heartbeatTimer, isConnectingRef>>
envVars == <<sockets, timers>>
storeVars == <<ws, wsConnected, messages, streamingContent, liveAssistantContent,
               agentSteps, agentStatus, projectPorts>>
vars == <<phase, projectId, hookVars, envVars, storeVars, out, ev, tableStatus,
          chunkLog, liveLog, stepLog>>

\* the current values as one record
World ==
    [wsRef |-> wsRef, reconnectTimeout |-> reconnectTimeout,
     heartbeatTimer |-> heartbeatTimer, isConnectingRef |-> isConnectingRef,
     sockets |-> sockets, timers |-> timers,
     ws |-> ws, wsConnected |-> wsConnected, messages |-> messages,
     streamingContent |-> streamingContent,
     liveAssistantContent |-> liveAssistantContent,
     agentSteps |-> agentSteps, agentStatus |-> agentStatus,
     projectPorts |-> projectPorts, out |-> <<>>]

\* the next values are those of record w
Apply(w) ==
    /\ wsRef' = w.wsRef
    /\ reconnectTimeout' = w.reconnectTimeout
    /\ heartbeatTimer' = w.heartbeatTimer
    /\ isConnectingRef' = w.isConnectingRef
    /\ sockets' = w.sockets
    /\ timers' = w.timers
    /\ ws' = w.ws
    /\ wsConnected' = w.wsConnected
    /\ messages' = w.messages
    /\ streamingContent' = w.streamingContent
    /\ liveAssistantContent' = w.liveAssistantContent
    /\ agentSteps' = w.agentSteps
    /\ agentStatus' = w.agentStatus
    /\ projectPorts' = w.projectPorts
    /\ out' = w.out

(***************************************************************************)
(* The store (useStore.js).  addMessage also stamps an id and a timestamp   *)
(* from the clock; no handler reads them, and they are left out.           *)
(***************************************************************************)
\* a variant that keeps only the newest message
addMessage_replace(w, message) ==
    [w EXCEPT
        !.messages = <<message>>,
        !.streamingContent =
            IF message.role = "assistant" THEN <<>> ELSE w.streamingContent,
        !.liveAssistantContent =
            IF message.role = "user" THEN <<>> ELSE w.liveAssistantContent]

\* addMessage: (message) => set(...)
addMessage(w, message) ==
    [w EXCEPT
        !.messages = Append(w.messages, message),
        !.streamingContent =
            IF message.role = "assistant" THEN <<>> ELSE w.streamingContent,
        !.liveAssistantContent =
            IF message.role = "user" THEN <<>> ELSE w.liveAssistantContent]

\* a variant that keeps the last chunk only
addStreamingChunk_replace(w, chunk) == [w EXCEPT !.streamingContent = OrEmpty(chunk)]

\* addStreamingChunk: (chunk) => set(...)
addStreamingChunk(w, chunk) ==
    [w EXCEPT !.streamingContent = OrEmpty(w.streamingContent) \o OrEmpty(chunk)]

\* a variant that leaves the buffer as it is
clearStreamingContent_keep(w) == w

\* clearStreamingContent: () => set({ streamingContent: '' })
clearStreamingContent(w) == [w EXCEPT !.streamingContent = <<>>]

\* a variant that appends the text to the live text
setLiveAssistantContent_append(w, text) ==
    [w EXCEPT !.liveAssistantContent = IF OrEmpty(text) = <<>> THEN <<>>
                                       ELSE @ \o OrEmpty(text)]

\* setLiveAssistantContent: (text) => set({ liveAssistantContent: text ?? '' })
setLiveAssistantContent(w, text) ==
    [w EXCEPT !.liveAssistantContent = OrEmpty(text)]

\* a variant that puts the step in front
addAgentStep_prepend(w, step) == [w EXCEPT !.agentSteps = <<step>> \o w.agentSteps]

\* addAgentStep: (step) => set(...)
addAgentStep(w, step) == [w EXCEPT !.agentSteps = Append(w.agentSteps, step)]

setAgentStatus(w, status) == [w EXCEPT !.agentStatus = status]

\* a variant that ends the turn when the connection is lost
setWs_endTurn(w, s) ==
    [w EXCEPT !.ws = s, !.wsConnected = (s # Null),
              !.agentStatus = IF s = Null THEN "idle" ELSE @]

\* setWs: (ws) => set({ ws, wsConnected: !!ws })
setWs(w, s) == [w EXCEPT !.ws = s, !.wsConnected = (s # Null)]

\* a variant that also puts the status back to idle
updatePorts_andIdle(w, ports) ==
    [w EXCEPT !.projectPorts = ports, !.agentStatus = "idle"]

updatePorts(w, ports) == [w EXCEPT !.projectPorts = ports]

\* WebSocket.send: the frame goes out when the socket is OPEN and is silently
\* dropped when it is CLOSING or CLOSED (on a CONNECTING socket send throws, see
\* the callers)
wsSend(w, s, frame) ==
    IF w.sockets[s].readyState = "OPEN"
    THEN [w EXCEPT !.out = Append(w.out, [sock |-> s, frame |-> frame])]
    ELSE w

\* sendMessage (images and attachedFiles are opaque payload, carried in message)
sendMessage(w, message) ==
    IF w.ws # Null /\ w.wsConnected
    THEN IF w.sockets[w.ws].readyState = "CONNECTING"
         THEN w   \* ws.send throws InvalidStateError before anything is set
         ELSE LET w1 == wsSend(w, w.ws, [kind |-> "message", message |-> message])
                  w2 == addMessage(w1, [role |-> "user", content |-> message])
              IN  [w2 EXCEPT !.agentStatus = "thinking", !.agentSteps = <<>>,
                             !.streamingContent = <<>>]
    ELSE w

\* a variant that also empties the two buffers
stopAgent_clearBuffers(w) ==
    IF w.ws # Null /\ w.wsConnected
    THEN IF w.sockets[w.ws].readyState = "CONNECTING"
         THEN w
         ELSE LET w1 == wsSend(w, w.ws, [kind |-> "stop", message |-> <<>>])
              IN  [w1 EXCEPT !.agentStatus = "idle", !.streamingContent = <<>>,
                             !.liveAssistantContent = <<>>]
    ELSE w

\* stopAgent
stopAgent(w) ==
    IF w.ws # Null /\ w.wsConnected
    THEN IF w.sockets[w.ws].readyState = "CONNECTING"
         THEN w
         ELSE LET w1 == wsSend(w, w.ws, [kind |-> "stop", message |-> <<>>])
              IN  [w1 EXCEPT !.agentStatus = "idle"]
    ELSE w

(***************************************************************************)
(* The browser: timers and sockets.                                        *)
(***************************************************************************)
\* a timer id no pending timer has and no ref in `keep` holds or held until
\* this call: setTimeout never returns an id again, so the new id differs from
\* every id a ref still holds and from the id of the timer just cancelled
TimerIds(w) == {t.id : t \in w.timers}
FreshTimer(w, keep) ==
    CHOOSE i \in 1..(Cardinality(w.timers) + 3) :
        /\ i \notin TimerIds(w) \cup keep
        /\ \A j \in 1..(i - 1) : j \in TimerIds(w) \cup keep

\* clearTimeout(id): no effect when no pending timer has the id
clearTimeout(w, id) == [w EXCEPT !.timers = {t \in w.timers : t.id # id}]

\* WebSocket.close(code): nothing on a CLOSING or CLOSED socket; a CONNECTING
\* socket fails (its close event will carry 1006), an OPEN socket starts the
\* closing handshake with the code
wsClose(w, s, code) ==
    LET rs == w.sockets[s].readyState IN
    IF rs = "CONNECTING"
    THEN [w EXCEPT !.sockets[s].readyState = "CLOSING", !.sockets[s].closeCode = 1006]
    ELSE IF rs = "OPEN"
    THEN [w EXCEPT !.sockets[s].readyState = "CLOSING", !.sockets[s].closeCode = code]
    ELSE w

(***************************************************************************)
(* The hook (useWebSocket.js).  Every handler takes the socket whose event *)
(* it serves; a closure's `connect` and `ws` are those of the socket it    *)
(* was made for.                                                           *)
(***************************************************************************)
NewTimer(id, kind, delay, s, p) ==
    [id |-> id, kind |-> kind, delay |-> delay, sock |-> s, handle |-> p]

\* a variant that arms a new watchdog without cancelling the old one
resetHeartbeatTimer_noClear(w, s) ==
    LET id == FreshTimer(w, {w.heartbeatTimer, w.reconnectTimeout})
    IN  [w EXCEPT
            !.heartbeatTimer = id,
            !.timers = @ \cup {NewTimer(id, "heartbeat", HEARTBEAT_TIMEOUT_MS, s, NoHandle)}]

\* resetHeartbeatTimer, called in a handler of socket s
resetHeartbeatTimer(w, s) ==
    LET w1 == IF w.heartbeatTimer # Null THEN clearTimeout(w, w.heartbeatTimer) ELSE w
        id == FreshTimer(w1, {w.heartbeatTimer, w.reconnectTimeout})
    IN  [w1 EXCEPT
            !.heartbeatTimer = id,
            !.timers = @ \cup {NewTimer(id, "heartbeat", HEARTBEAT_TIMEOUT_MS, s, NoHandle)}]

\* the callback of the watchdog timer
heartbeatExpired(w) ==
    IF w.wsRef # Null /\ w.sockets[w.wsRef].readyState = "OPEN"
    THEN wsClose(w, w.wsRef, HEARTBEAT_CLOSE_CODE)
    ELSE w

\* a variant that dispatches on data.type alone
StepTypeOf_typeOnly(data) == data.type

\* data.step_type || data.type
StepTypeOf(data) == IF data.step_type # "" THEN data.step_type ELSE data.type

\* data.ports || {}
PortsOf(data) == IF data.ports = "undefined" THEN "{}" ELSE data.ports

\* handleMessage(data), for a parsed object, in the message handler of socket s
handleMessage(w, s, data) ==
    LET w0 == resetHeartbeatTimer(w, s)
        content == Trim(OrEmpty(data.content))
        terminal(role, text, status) ==
            setAgentStatus(
                setLiveAssistantContent(
                    clearStreamingContent(
                        addMessage(w0, [role |-> role, content |-> text])), <<>>),
                status)
    IN
    IF data.type = "heartbeat" THEN w0
    ELSE IF data.type = "agent_stream_chunk"
    THEN setAgentStatus(addStreamingChunk(w0, OrEmpty(data.content)), "working")
    ELSE CASE data.type = "connected" -> updatePorts(w0, PortsOf(data))
           [] data.type = "agent_step" ->
                LET w1 == addAgentStep(w0, [type |-> StepTypeOf(data),
                                            step_type |-> data.step_type,
                                            content |-> data.content])
                IN  IF StepTypeOf(data) = "thinking"
                    THEN setLiveAssistantContent(setAgentStatus(w1, "thinking"),
                            IF content = <<>> THEN Placeholder ELSE content)
                    ELSE IF StepTypeOf(data) = "llm_text"
                    THEN setLiveAssistantContent(setAgentStatus(w1, "working"), content)
                    ELSE IF StepTypeOf(data) \in {"tool_call", "tool_result"}
                    THEN setAgentStatus(w1, "working")
                    ELSE w1
           [] data.type = "agent_response" -> terminal("assistant", data.content, "done")
           [] data.type = "agent_stopped" ->
                terminal("assistant",
                         IF OrEmpty(data.content) = <<>> THEN StoppedFallback
                         ELSE data.content,
                         "idle")
           [] data.type = "ports_update" -> updatePorts(w0, PortsOf(data))
           [] data.type = "error" -> terminal("error", data.content, "error")
           [] data.type = "user_message" -> w0
           [] OTHER -> w0

\* a variant in which only the liveness ping restarts the watchdog
onmessage_resetOnPingOnly(w, s, frame) ==
    IF frame.json # "object" THEN w
    ELSE IF frame.type = "heartbeat" THEN handleMessage(w, s, frame)
    ELSE [handleMessage(w, s, frame) EXCEPT !.timers = w.timers,
                                            !.heartbeatTimer = w.heartbeatTimer]

\* a variant that reports a payload that does not parse as an agent error
onmessage_errorOnMalformed(w, s, frame) ==
    IF frame.json = "malformed" THEN setAgentStatus(w, "error")
    ELSE IF frame.json = "null" THEN resetHeartbeatTimer(w, s)
    ELSE handleMessage(w, s, frame)

\* ws.onmessage of socket s: JSON.parse, then handleMessage, inside try/catch.
\* A frame that does not parse throws in JSON.parse; the frame "null" parses,
\* and handleMessage throws at data.type, after it has reset the watchdog.
onmessage(w, s, frame) ==
    IF frame.json = "malformed" THEN w
    ELSE IF frame.json = "null" THEN resetHeartbeatTimer(w, s)
    ELSE handleMessage(w, s, frame)

\* a variant without the guard on a connection in flight
connect_noInFlightGuard(w, p) ==
    IF p = NoHandle THEN w
    ELSE IF w.wsRef # Null /\ w.sockets[w.wsRef].readyState = "OPEN"
    THEN w
    ELSE LET w1 == [w EXCEPT !.isConnectingRef = TRUE]
             w2 == IF w1.wsRef # Null
                   THEN [wsClose(w1, w1.wsRef, 1005) EXCEPT !.wsRef = Null]
                   ELSE w1
             w3 == IF w2.reconnectTimeout # Null
                   THEN [clearTimeout(w2, w2.reconnectTimeout)
                            EXCEPT !.reconnectTimeout = Null]
                   ELSE w2
         IN  [w3 EXCEPT
                !.sockets = Append(@, [readyState |-> "CONNECTING",
                                       projectId |-> p, closeCode |-> Null]),
                !.wsRef = Len(w3.sockets) + 1]

\* a variant that leaves a pending reconnect timer alone
connect_keepReconnect(w, p) ==
    IF p = NoHandle THEN w
    ELSE IF \/ w.isConnectingRef
            \/ (w.wsRef # Null /\ w.sockets[w.wsRef].readyState = "CONNECTING")
    THEN w
    ELSE IF w.wsRef # Null /\ w.sockets[w.wsRef].readyState = "OPEN"
    THEN w
    ELSE LET w1 == [w EXCEPT !.isConnectingRef = TRUE]
             w2 == IF w1.wsRef # Null
                   THEN [wsClose(w1, w1.wsRef, 1005) EXCEPT !.wsRef = Null]
                   ELSE w1
         IN  [w2 EXCEPT
                !.sockets = Append(@, [readyState |-> "CONNECTING",
                                       projectId |-> p, closeCode |-> Null]),
                !.wsRef = Len(w2.sockets) + 1]

\* connect, of the render whose projectId is p
connect(w, p) ==
    IF p = NoHandle THEN w
    ELSE IF \/ w.isConnectingRef
            \/ (w.wsRef # Null /\ w.sockets[w.wsRef].readyState = "CONNECTING")
    THEN w
    ELSE IF w.wsRef # Null /\ w.sockets[w.wsRef].readyState = "OPEN"
    THEN w
    ELSE LET w1 == [w EXCEPT !.isConnectingRef = TRUE]
             w2 == IF w1.wsRef # Null
                   THEN [wsClose(w1, w1.wsRef, 1005) EXCEPT !.wsRef = Null]
                   ELSE w1
             w3 == IF w2.reconnectTimeout # Null
                   THEN [clearTimeout(w2, w2.reconnectTimeout)
                            EXCEPT !.reconnectTimeout = Null]
                   ELSE w2
         IN  [w3 EXCEPT
                !.sockets = Append(@, [readyState |-> "CONNECTING",
                                       projectId |-> p, closeCode |-> Null]),
                !.wsRef = Len(w3.sockets) + 1]

\* a variant that publishes the socket without arming the watchdog
onopen_noWatchdog(w, s) == setWs([w EXCEPT !.isConnectingRef = FALSE], s)

\* ws.onopen of socket s
onopen(w, s) ==
    setWs(resetHeartbeatTimer([w EXCEPT !.isConnectingRef = FALSE], s), s)

\* ws.onerror of socket s
onerror(w, s) == [w EXCEPT !.isConnectingRef = FALSE]

\* a variant that reconnects after the close of any socket
ShouldReconnect_anySocket(w, s, code) ==
    code # NORMAL_CLOSE_CODE /\ w.reconnectTimeout = Null

\* a variant that reconnects only after the watchdog's close
ShouldReconnect_watchdogOnly(w, s, code) ==
    code = HEARTBEAT_CLOSE_CODE /\ w.reconnectTimeout = Null /\ w.wsRef = s

\* the condition of the reconnect in ws.onclose of socket s
ShouldReconnect(w, s, code) ==
    code # NORMAL_CLOSE_CODE /\ w.reconnectTimeout = Null /\ w.wsRef = s

\* a variant with one delay for every close code
ReconnectDelay_flat(code) == RECONNECT_MS

\* a variant that waits twice as long after a close that was not the watchdog's
\* nor an abnormal one
ReconnectDelay_longer(code) ==
    IF code = HEARTBEAT_CLOSE_CODE THEN HEARTBEAT_RECONNECT_MS
    ELSE IF code \in AbnormalCodes THEN RECONNECT_MS
    ELSE 2 * RECONNECT_MS

\* const delay = event.code === 4000 ? 1000 : 5000
ReconnectDelay(code) ==
    IF code = HEARTBEAT_CLOSE_CODE THEN HEARTBEAT_RECONNECT_MS ELSE RECONNECT_MS

\* ws.onclose of socket s, for a close event with the given code
onclose(w, s, code) ==
    LET w1 == [w EXCEPT !.isConnectingRef = FALSE]
        w2 == IF w1.heartbeatTimer # Null
              THEN clearTimeout(w1, w1.heartbeatTimer) ELSE w1
        w3 == setWs(w2, Null)
    IN  IF ShouldReconnect(w3, s, code)
        THEN LET id == FreshTimer(w3, {w3.heartbeatTimer})
             IN  [w3 EXCEPT
                    !.reconnectTimeout = id,
                    !.timers = @ \cup {NewTimer(id, "reconnect", ReconnectDelay(code),
                                                s, w3.sockets[s].projectId)}]
        ELSE w3

\* a variant that forgets to connect
reconnectExpired_noConnect(w, p) == [w EXCEPT !.reconnectTimeout = Null]

\* the callback of the reconnect timer armed by the close of a socket of handle p
reconnectExpired(w, p) == connect([w EXCEPT !.reconnectTimeout = Null], p)

\* a variant that drops the socket without closing it
cleanup_noClose(w) ==
    [w EXCEPT !.timers = {t \in w.timers :
                            t.id \notin {w.heartbeatTimer, w.reconnectTimeout}},
              !.heartbeatTimer = Null, !.reconnectTimeout = Null,
              !.wsRef = Null, !.isConnectingRef = FALSE]

\* a variant that leaves a pending reconnect timer alone
cleanup_keepReconnect(w) ==
    LET w1 == IF w.heartbeatTimer # Null
              THEN [clearTimeout(w, w.heartbeatTimer) EXCEPT !.heartbeatTimer = Null]
              ELSE w
        w3 == IF w1.wsRef # Null
              THEN [wsClose(w1, w1.wsRef, NORMAL_CLOSE_CODE) EXCEPT !.wsRef = Null]
              ELSE w1
    IN  [w3 EXCEPT !.isConnectingRef = FALSE]

\* the cleanup of the effect
cleanup(w) ==
    LET w1 == IF w.heartbeatTimer # Null
              THEN [clearTimeout(w, w.heartbeatTimer) EXCEPT !.heartbeatTimer = Null]
              ELSE w
        w2 == IF w1.reconnectTimeout # Null
              THEN [clearTimeout(w1, w1.reconnectTimeout)
                        EXCEPT !.reconnectTimeout = Null]
              ELSE w1
        w3 == IF w2.wsRef # Null
              THEN [wsClose(w2, w2.wsRef, NORMAL_CLOSE_CODE) EXCEPT !.wsRef = Null]
              ELSE w2
    IN  [w3 EXCEPT !.isConnectingRef = FALSE]

(***************************************************************************)
(* Inputs.                                                                 *)
(***************************************************************************)
Contents == {Undefined, <<>>, <<" ">>, <<"a">>}
StepTypes == {"thinking", "llm_text", "tool_call", "tool_result", "response", "",
              "other"}
PortMaps == {"undefined", "p1"}
UserTexts == {<<"a">>}

Frame(json, type, step_type, content, ports) ==
    [json |-> json, type |-> type, step_type |-> step_type,
     content |-> content, ports |-> ports]

\* every payload a peer may send: the nine message types and an unknown one, as
\* JSON objects, and the two payloads handleMessage never finishes on
InboundFrames ==
    {Frame("malformed", "", "", Undefined, "undefined"),
     Frame("null", "", "", Undefined, "undefined")}
    \cup {Frame("object", t, "", Undefined, "undefined") :
            t \in {"heartbeat", "user_message", "mystery"}}
    \cup {Frame("object", t, "", Undefined, p) :
            t \in {"connected", "ports_update"}, p \in PortMaps}
    \cup {Frame("object", t, "", c, "undefined") :
            t \in {"agent_stream_chunk", "agent_response", "agent_stopped", "error"},
            c \in Contents}
    \cup {Frame("object", "agent_step", st, c, "undefined") :
            st \in StepTypes, c \in Contents}

\* the frames the bounds of the history, the step list and the buffer admit
AppendsMessage(f) ==
    f.json = "object" /\ f.type \in {"agent_response", "agent_stopped", "error"}
AppendsStep(f) == f.json = "object" /\ f.type = "agent_step"
WithinBounds(f) ==
    /\ AppendsMessage(f) => Len(messages) < MaxMessages
    /\ AppendsStep(f) => Len(agentSteps) < MaxSteps
    /\ (f.json = "object" /\ f.type = "agent_stream_chunk") =>
            /\ Len(streamingContent) + Len(OrEmpty(f.content)) <= MaxStream
            /\ Len(chunkLog) + Len(OrEmpty(f.content)) <= MaxStream

(***************************************************************************)
(* The status the dispatch table of the specification (section 4.3)        *)
(* assigns after message f when the status before it was cur.              *)
(***************************************************************************)
TableStatus(f, cur) ==
    IF f.json # "object" THEN cur
    ELSE IF f.type = "agent_step" /\ f.step_type = "thinking" THEN "thinking"
    ELSE IF f.type = "agent_step"
            /\ f.step_type \in {"llm_text", "tool_call", "tool_result"} THEN "working"
    ELSE IF f.type = "agent_stream_chunk" THEN "working"
    ELSE IF f.type = "agent_response" THEN "done"
    ELSE IF f.type = "agent_stopped" THEN "idle"
    ELSE IF f.type = "error" THEN "error"
    ELSE cur

(***************************************************************************)
(* The concatenation of the chunks received since the last clearing event, *)
(* after message f when it was log before: a chunk adds its content (the   *)
(* empty string when it has none), a terminal message clears.  A turn the  *)
(* store accepted (its user message is appended) clears too, see           *)
(* SendMessage.                                                            *)
(***************************************************************************)
ChunkLog(f, log) ==
    IF f.json # "object" THEN log
    ELSE IF f.type = "agent_stream_chunk"
    THEN log \o (IF f.content = Undefined THEN <<>> ELSE f.content)
    ELSE IF f.type \in {"agent_response", "agent_stopped", "error"} THEN <<>>
    ELSE log

(***************************************************************************)
(* The live text the dispatch table of the specification assigns after     *)
(* message f when it was log before: a thinking step sets its trimmed      *)
(* content, or the placeholder when that is empty; an llm_text step its    *)
(* trimmed content; a terminal message clears; anything else leaves it.    *)
(* A turn the store accepted clears too, see SendMessage.                  *)
(***************************************************************************)
LiveLog(f, log) ==
    IF f.json # "object" THEN log
    ELSE IF f.type = "agent_step" /\ f.step_type = "thinking"
    THEN (IF Trim(OrEmpty(f.content)) = <<>> THEN <<"Dumayu...">>
          ELSE Trim(OrEmpty(f.content)))
    ELSE IF f.type = "agent_step" /\ f.step_type = "llm_text"
    THEN Trim(OrEmpty(f.content))
    ELSE IF f.type \in {"agent_response", "agent_stopped", "error"} THEN <<>>
    ELSE log

(***************************************************************************)
(* The agent_step messages processed since the last accepted turn,         *)
(* after message f when they were log before.                              *)
(***************************************************************************)
StepLog(f, log) ==
    IF f.json = "object" /\ f.type = "agent_step" THEN Append(log, f) ELSE log

Event(op, s, code) == [op |-> op, sock |-> s, code |-> code]

(***************************************************************************)
(* Init: the hook before its first effect, the store as created.           *)
(***************************************************************************)
Init ==
    /\ phase = "init"
    /\ projectId = NoHandle
    /\ wsRef = Null
    /\ reconnectTimeout = Null
    /\ heartbeatTimer = Null
    /\ isConnectingRef = FALSE
    /\ sockets = <<>>
    /\ timers = {}
    /\ ws = Null
    /\ wsConnected = FALSE
    /\ messages = <<>>
    /\ streamingContent = <<>>
    /\ liveAssistantContent = <<>>
    /\ agentSteps = <<>>
    /\ agentStatus = "idle"
    /\ projectPorts = "{}"
    /\ out = <<>>
    /\ ev = Event("init", Null, Null)
    /\ tableStatus = "idle"
    /\ chunkLog = <<>>
    /\ liveLog = <<>>
    /\ stepLog = <<>>

(***************************************************************************)
(* Actions.                                                                *)
(***************************************************************************)
SocketIds == 1..Len(sockets)

\* the view mounts with handle p: the effect runs connect
Mount(p) ==
    /\ phase = "init"
    /\ phase' = "mounted"
    /\ projectId' = p
    /\ Apply(connect(World, p))
    /\ ev' = Event("mount", Null, Null)
    /\ UNCHANGED <<tableStatus, chunkLog, liveLog, stepLog>>

\* the handle changes to p: the cleanup of the old effect, then the new effect
ChangeHandle(p) ==
    /\ phase = "mounted"
    /\ p # projectId
    /\ Len(sockets) < MaxSockets
    /\ projectId' = p
    /\ Apply(connect(cleanup(World), p))
    /\ ev' = Event("changeHandle", Null, Null)
    /\ UNCHANGED <<phase, tableStatus, chunkLog, liveLog, stepLog>>

\* the view unmounts: the cleanup of the effect
Unmount ==
    /\ phase = "mounted"
    /\ phase' = "unmounted"
    /\ Apply(cleanup(World))
    /\ ev' = Event("unmount", Null, Null)
    /\ UNCHANGED <<projectId, tableStatus, chunkLog, liveLog, stepLog>>

\* connect is called once more, by the current render
ConnectCall ==
    /\ phase = "mounted"
    /\ Len(sockets) < MaxSockets
    /\ Apply(connect(World, projectId))
    /\ ev' = Event("connect", wsRef, Null)
    /\ UNCHANGED <<phase, projectId, tableStatus, chunkLog, liveLog, stepLog>>

\* the connection of socket s is established: readyState OPEN, open event
SocketOpen(s) ==
    /\ sockets[s].readyState = "CONNECTING"
    /\ Apply(onopen([World EXCEPT !.sockets[s].readyState = "OPEN"], s))
    /\ ev' = Event("open", s, Null)
    /\ UNCHANGED <<phase, projectId, tableStatus, chunkLog, liveLog, stepLog>>

\* a frame arrives on socket s: message event
SocketMessage(s, f) ==
    /\ sockets[s].readyState = "OPEN"
    /\ WithinBounds(f)
    /\ Apply(onmessage(World, s, f))
    /\ ev' = Event(IF f.json = "object" THEN "message" ELSE f.json, s, Null)
    /\ tableStatus' = TableStatus(f, tableStatus)
    /\ chunkLog' = ChunkLog(f, chunkLog)
    /\ liveLog' = LiveLog(f, liveLog)
    /\ stepLog' = StepLog(f, stepLog)
    /\ UNCHANGED <<phase, projectId>>

\* the peer's Close frame with the given code arrives on socket s: the closing
\* handshake starts, no event yet
PeerClose(s, code) ==
    /\ sockets[s].readyState = "OPEN"
    /\ Apply([World EXCEPT !.sockets[s].readyState = "CLOSING",
                           !.sockets[s].closeCode = code])
    /\ ev' = Event("peerClose", s, code)
    /\ UNCHANGED <<phase, projectId, tableStatus, chunkLog, liveLog, stepLog>>

\* the close codes the close event of socket s may carry: that of the closing
\* handshake when it completes, 1006 when the connection is lost
CloseCodesOf(s) ==
    IF sockets[s].readyState = "CLOSING"
    THEN {sockets[s].closeCode} \cup AbnormalCodes
    ELSE AbnormalCodes

\* the connection of socket s is closed: readyState CLOSED, then the error
\* event when the connection failed, then the close event, in one task; the
\* socket keeps the code of its close event
SocketClose(s, code) ==
    /\ sockets[s].readyState # "CLOSED"
    /\ code \in CloseCodesOf(s)
    /\ LET w == [World EXCEPT !.sockets[s].readyState = "CLOSED",
                              !.sockets[s].closeCode = code]
       IN  Apply(onclose(IF code \in AbnormalCodes THEN onerror(w, s) ELSE w, s, code))
    /\ ev' = Event("close", s, code)
    /\ UNCHANGED <<phase, projectId, tableStatus, chunkLog, liveLog, stepLog>>

\* the watchdog timer t expires
HeartbeatFire(t) ==
    /\ t.kind = "heartbeat"
    /\ Apply(heartbeatExpired([World EXCEPT !.timers = @ \ {t}]))
    /\ ev' = Event("heartbeatFire", wsRef, Null)
    /\ UNCHANGED <<phase, projectId, tableStatus, chunkLog, liveLog, stepLog>>

\* the reconnect timer t expires
ReconnectFire(t) ==
    /\ t.kind = "reconnect"
    /\ Len(sockets) < MaxSockets
    /\ Apply(reconnectExpired([World EXCEPT !.timers = @ \ {t}], t.handle))
    /\ ev' = Event("reconnectFire", t.sock, Null)
    /\ UNCHANGED <<phase, projectId, tableStatus, chunkLog, liveLog, stepLog>>

\* the user sends a turn
SendMessage(text) ==
    /\ (ws # Null /\ wsConnected) => Len(messages) < MaxMessages
    /\ Apply(sendMessage(World, text))
    /\ ev' = Event("sendMessage", wsRef, Null)
    /\ tableStatus' = agentStatus'
    /\ chunkLog' = IF Len(messages') > Len(messages) THEN <<>> ELSE chunkLog
    /\ liveLog' = IF Len(messages') > Len(messages) THEN <<>> ELSE liveLog
    /\ stepLog' = IF Len(messages') > Len(messages) THEN <<>> ELSE stepLog
    /\ UNCHANGED <<phase, projectId>>

\* the user stops the agent
StopAgent ==
    /\ Apply(stopAgent(World))
    /\ ev' = Event("stopAgent", wsRef, Null)
    /\ tableStatus' = agentStatus'
    /\ UNCHANGED <<chunkLog, liveLog, stepLog>>
    /\ UNCHANGED <<phase, projectId>>

\* the frames of the connection-level specification: a liveness ping, a
\* payload that does not parse, the payload "null", and a stream chunk
LinkFrames ==
    {f \in InboundFrames :
        \/ f.json # "object"
        \/ f.type = "heartbeat"
        \/ (f.type = "agent_stream_chunk" /\ f.content = Undefined)}

\* the frames of the protocol-level specification: every message type and
\* step type, with one content
ChatFrames ==
    {f \in InboundFrames :
        /\ f.json = "object"
        /\ f.content = <<"a">> \/ f.type \notin {"agent_stream_chunk",
                "agent_response", "agent_stopped", "error", "agent_step"}
        /\ f.ports = "undefined" \/ f.type = "ports_update"}

Next ==
    \/ \E p \in Handles \cup {NoHandle} : Mount(p)
    \/ \E p \in Handles \cup {NoHandle} : ChangeHandle(p)
    \/ Unmount
    \/ \E s \in SocketIds : SocketOpen(s)
    \/ \E s \in SocketIds : \E f \in LinkFrames : SocketMessage(s, f)
    \/ \E s \in SocketIds : \E code \in PeerCloseCodes : PeerClose(s, code)
    \/ \E s \in SocketIds : \E code \in CloseCodesOf(s) : SocketClose(s, code)
    \/ \E t \in timers : HeartbeatFire(t)
    \/ \E t \in timers : ReconnectFire(t)
    \/ \E text \in UserTexts : SendMessage(text)
    \/ StopAgent

Spec == Init /\ [][Next]_vars

\* the hook with connect also called at any time while the view is mounted
NextApi == Next \/ ConnectCall

SpecApi == Init /\ [][NextApi]_vars

\* the connection manager alone: the actions of Next that read or write a ref,
\* a socket or a timer, with the liveness ping as the only frame
PingFrames == {f \in InboundFrames : f.json = "object" /\ f.type = "heartbeat"}

NextLink ==
    \/ \E p \in Handles \cup {NoHandle} : Mount(p)
    \/ \E p \in Handles \cup {NoHandle} : ChangeHandle(p)
    \/ Unmount
    \/ \E s \in SocketIds : SocketOpen(s)
    \/ \E s \in SocketIds : \E f \in PingFrames : SocketMessage(s, f)
    \/ \E s \in SocketIds : \E code \in PeerCloseCodes : PeerClose(s, code)
    \/ \E s \in SocketIds : \E code \in CloseCodesOf(s) : SocketClose(s, code)
    \/ \E t \in timers : HeartbeatFire(t)
    \/ \E t \in timers : ReconnectFire(t)

\* a pending timer expires in the end: the event loop runs the callback of
\* every timer that is not cancelled
TimersFire ==
    /\ WF_vars(\E t \in timers : ReconnectFire(t))
    /\ WF_vars(\E t \in timers : HeartbeatFire(t))

SpecLive == Init /\ [][NextLink]_vars /\ TimersFire

(***************************************************************************)
(* The protocol on one open connection: the state after the view mounted   *)
(* with handle "A" and the open event of its socket, then any messages,    *)
(* turns and stops.                                                        *)
(***************************************************************************)
InitChat ==
    /\ phase = "mounted"
    /\ projectId = "A"
    /\ wsRef = 1
    /\ reconnectTimeout = Null
    /\ heartbeatTimer = 1
    /\ isConnectingRef = FALSE
    /\ sockets = <<[readyState |-> "OPEN", projectId |-> "A", closeCode |-> Null]>>
    /\ timers = {NewTimer(1, "heartbeat", HEARTBEAT_TIMEOUT_MS, 1, NoHandle)}
    /\ ws = 1
    /\ wsConnected = TRUE
    /\ messages = <<>>
    /\ streamingContent = <<>>
    /\ liveAssistantContent = <<>>
    /\ agentSteps = <<>>
    /\ agentStatus = "idle"
    /\ projectPorts = "{}"
    /\ out = <<>>
    /\ ev = Event("open", 1, Null)
    /\ tableStatus = "idle"
    /\ chunkLog = <<>>
    /\ liveLog = <<>>
    /\ stepLog = <<>>

NextChat ==
    \/ \E f \in ChatFrames : SocketMessage(1, f)
    \/ \E text \in UserTexts : SendMessage(text)
    \/ StopAgent

SpecChat == InitChat /\ [][NextChat]_vars

(***************************************************************************)
(* The stream buffer on one open connection: chunks with every content,    *)
(* the three terminal messages, turns and stops.                           *)
(***************************************************************************)
StreamFrames ==
    {f \in InboundFrames :
        /\ f.json = "object"
        /\ \/ f.type = "agent_stream_chunk"
           \/ (f.type \in {"agent_response", "agent_stopped", "error"}
                    /\ f.content = <<"a">>)}

NextStream ==
    \/ \E f \in StreamFrames : SocketMessage(1, f)
    \/ \E text \in UserTexts : SendMessage(text)
    \/ StopAgent

SpecStream == InitChat /\ [][NextStream]_vars

(***************************************************************************)
(* The end of a turn on one open connection: the three terminal messages   *)
(* with every content, after a chunk and a thinking step have filled the   *)
(* two buffers.                                                            *)
(***************************************************************************)
TerminalFrames ==
    {f \in InboundFrames :
        f.json = "object" /\ f.type \in {"agent_response", "agent_stopped", "error"}}

FillFrames ==
    {f \in ChatFrames :
        \/ f.type = "agent_stream_chunk"
        \/ (f.type = "agent_step" /\ f.step_type = "thinking")}

NextTerminal ==
    \/ \E f \in TerminalFrames \cup FillFrames : SocketMessage(1, f)
    \/ \E text \in UserTexts : SendMessage(text)
    \/ StopAgent

SpecTerminal == InitChat /\ [][NextTerminal]_vars

(***************************************************************************)
(* One turn on one open connection: the messages of the end-to-end         *)
(* scenario (a thinking step, a tool call, the response "done"), in any    *)
(* order and number, with the step list long enough for the steps of a     *)
(* turn.                                                                   *)
(***************************************************************************)
ThinkingSteps ==
    {Frame("object", "agent_step", "thinking", c, "undefined") : c \in {Undefined, <<"a">>}}
ToolCallStep == Frame("object", "agent_step", "tool_call", Undefined, "undefined")
ResponseDone == Frame("object", "agent_response", "", <<"done">>, "undefined")

TurnFrames == ThinkingSteps \cup {ToolCallStep, ResponseDone}

\* a frame of a turn arrives on socket s: message event
TurnMessage(s, f) ==
    /\ sockets[s].readyState = "OPEN"
    /\ AppendsMessage(f) => Len(messages) < MaxMessages
    /\ AppendsStep(f) => Len(agentSteps) < MaxTurnSteps
    /\ (f.type = "agent_stream_chunk") =>
            Len(streamingContent) + Len(OrEmpty(f.content)) <= MaxStream
    /\ Apply(onmessage(World, s, f))
    /\ ev' = Event("message", s, Null)
    /\ tableStatus' = TableStatus(f, tableStatus)
    /\ chunkLog' = ChunkLog(f, chunkLog)
    /\ liveLog' = LiveLog(f, liveLog)
    /\ stepLog' = StepLog(f, stepLog)
    /\ UNCHANGED <<phase, projectId>>

NextTurn ==
    \/ \E f \in TurnFrames : TurnMessage(1, f)
    \/ \E text \in UserTexts : SendMessage(text)
    \/ StopAgent

SpecTurn == InitChat /\ [][NextTurn]_vars

(***************************************************************************)
(* Several turns on one open connection: the terminal messages error and   *)
(* agent_response arrive at any time, also after a later turn was sent;    *)
(* the history is long enough for two turns and two late messages.         *)
(***************************************************************************)
LateFrames == {f \in ChatFrames : f.type \in {"agent_response", "error"}}

\* a terminal message arrives on socket s: message event
LateMessage(s, f) ==
    /\ sockets[s].readyState = "OPEN"
    /\ Len(messages) < MaxLateMessages
    /\ Apply(onmessage(World, s, f))
    /\ ev' = Event("message", s, Null)
    /\ tableStatus' = TableStatus(f, tableStatus)
    /\ chunkLog' = ChunkLog(f, chunkLog)
    /\ liveLog' = LiveLog(f, liveLog)
    /\ stepLog' = StepLog(f, stepLog)
    /\ UNCHANGED <<phase, projectId>>

\* the user sends a turn
LateSend(text) ==
    /\ Len(messages) < MaxLateMessages
    /\ Apply(sendMessage(World, text))
    /\ ev' = Event("sendMessage", wsRef, Null)
    /\ tableStatus' = agentStatus'
    /\ chunkLog' = IF Len(messages') > Len(messages) THEN <<>> ELSE chunkLog
    /\ liveLog' = IF Len(messages') > Len(messages) THEN <<>> ELSE liveLog
    /\ stepLog' = IF Len(messages') > Len(messages) THEN <<>> ELSE stepLog
    /\ UNCHANGED <<phase, projectId>>

NextLate ==
    \/ \E f \in LateFrames : LateMessage(1, f)
    \/ \E text \in UserTexts : LateSend(text)
    \/ StopAgent

SpecLate == InitChat /\ [][NextLate]_vars

(***************************************************************************)
(* The live text on one open connection: thinking and llm_text steps with  *)
(* contents that are missing, blank, plain and padded with blanks, the     *)
(* other steps, a chunk and the terminal messages, with room for the steps *)
(* of a turn.                                                              *)
(***************************************************************************)
Padded == <<" ", "a", " ">>

AssistantFrames ==
    {Frame("object", "agent_step", "thinking", c, "undefined") :
        c \in {Undefined, <<" ">>, Padded}}
    \cup {Frame("object", "agent_step", "llm_text", c, "undefined") :
        c \in {<<" ">>, <<"a">>}}
    \cup {Frame("object", "agent_step", st, Undefined, "undefined") :
        st \in {"tool_call", "tool_result"}}
    \cup {f \in ChatFrames : f.type \in {"agent_stream_chunk", "agent_response", "error"}}

NextAssistant ==
    \/ \E f \in AssistantFrames : TurnMessage(1, f)
    \/ \E text \in UserTexts : SendMessage(text)
    \/ StopAgent

SpecAssistant == InitChat /\ [][NextAssistant]_vars

(***************************************************************************)
(* The step list over the life of a connection: the view mounts with       *)
(* handle "A", sockets open, receive steps, close and are replaced by the  *)
(* reconnect, the view unmounts; turns and stops at any time.              *)
(***************************************************************************)
StepFrames ==
    {Frame("object", "agent_step", st, Undefined, "undefined") :
        st \in {"tool_call", "tool_result"}}

NextSteps ==
    \/ Mount("A")
    \/ Unmount
    \/ \E s \in SocketIds : SocketOpen(s)
    \/ \E s \in SocketIds : \E f \in StepFrames : TurnMessage(s, f)
    \/ \E s \in SocketIds : \E code \in PeerCloseCodes : PeerClose(s, code)
    \/ \E s \in SocketIds : \E code \in CloseCodesOf(s) : SocketClose(s, code)
    \/ \E t \in timers : HeartbeatFire(t)
    \/ \E t \in timers : ReconnectFire(t)
    \/ \E text \in UserTexts : SendMessage(text)
    \/ StopAgent

SpecSteps == Init /\ [][NextSteps]_vars

(***************************************************************************)
(* The chat history over the life of a connection: as for the step list,   *)
(* with the terminal messages agent_response and error as the frames.      *)
(***************************************************************************)
HistoryFrames == {f \in ChatFrames : f.type \in {"agent_response", "error"}}

NextHistory ==
    \/ Mount("A")
    \/ Unmount
    \/ \E s \in SocketIds : SocketOpen(s)
    \/ \E s \in SocketIds : \E f \in HistoryFrames : SocketMessage(s, f)
    \/ \E s \in SocketIds : \E code \in PeerCloseCodes : PeerClose(s, code)
    \/ \E s \in SocketIds : \E code \in CloseCodesOf(s) : SocketClose(s, code)
    \/ \E t \in timers : HeartbeatFire(t)
    \/ \E t \in timers : ReconnectFire(t)
    \/ \E text \in UserTexts : SendMessage(text)
    \/ StopAgent

SpecHistory == Init /\ [][NextHistory]_vars

(***************************************************************************)
(* The messages that are not part of a turn, with every port mapping, on   *)
(* one open connection, among a turn's chunk, step and response.           *)
(***************************************************************************)
PassiveTypes == {"heartbeat", "user_message", "connected", "ports_update", "mystery"}

PassiveFrames == {f \in InboundFrames : f.json = "object" /\ f.type \in PassiveTypes}

ActiveFrames ==
    {f \in ChatFrames :
        \/ f.type \in {"agent_stream_chunk", "agent_response"}
        \/ (f.type = "agent_step" /\ f.step_type = "thinking")}

NextPassive ==
    \/ \E f \in PassiveFrames \cup ActiveFrames : SocketMessage(1, f)
    \/ \E text \in UserTexts : SendMessage(text)
    \/ StopAgent

SpecPassive == InitChat /\ [][NextPassive]_vars

(***************************************************************************)
(* A turn over the life of a connection: the view mounts with handle "A",  *)
(* a turn is sent, a chunk and a thinking step fill the two buffers, and   *)
(* sockets close and are replaced, by the reconnect or by a direct call of *)
(* connect, while the turn is running.                                     *)
(***************************************************************************)
RunningFrames ==
    {f \in ChatFrames :
        \/ f.type = "agent_stream_chunk"
        \/ (f.type = "agent_step" /\ f.step_type = "thinking")}

NextRunning ==
    \/ Mount("A")
    \/ Unmount
    \/ ConnectCall
    \/ \E s \in SocketIds : SocketOpen(s)
    \/ \E s \in SocketIds : \E f \in RunningFrames : SocketMessage(s, f)
    \/ \E s \in SocketIds : \E code \in PeerCloseCodes : PeerClose(s, code)
    \/ \E s \in SocketIds : \E code \in CloseCodesOf(s) : SocketClose(s, code)
    \/ \E t \in timers : HeartbeatFire(t)
    \/ \E t \in timers : ReconnectFire(t)
    \/ \E text \in UserTexts : SendMessage(text)
    \/ StopAgent

SpecRunning == Init /\ [][NextRunning]_vars

(***************************************************************************)
(* The chat input (Chat.jsx) on one open connection.  The text in the box  *)
(* and the attachments are the component's own state, which the user sets  *)
(* between two sends: they are drawn anew for every send.                  *)
(***************************************************************************)
InputTexts == {<<>>, <<" ">>, <<"a">>}
Attachments == {"none", "image", "file"}
ImagePrompt == <<"Proanaliziruy izobrazhenie i sozday kod">>
FilesPrompt == <<"Obrabotay prikreplyonnye fayly">>

\* const isWorking = agentStatus === 'thinking' || agentStatus === 'working'
isWorking(w) == w.agentStatus \in {"thinking", "working"}

\* handleSend, with the text of the box and the kind of attachment
handleSend(w, input, attach) ==
    LET text == Trim(input)
    IN  IF (text = <<>> /\ attach = "none") \/ ~w.wsConnected
        THEN w
        ELSE sendMessage(w, IF text # <<>> THEN text
                            ELSE IF attach = "image" THEN ImagePrompt
                            ELSE FilesPrompt)

\* the disabled attribute of the send button
SendButtonDisabled(w, input, attach) ==
    \/ (Trim(input) = <<>> /\ attach = "none")
    \/ ~w.wsConnected
    \/ isWorking(w)

\* the disabled attribute of the textarea
TextareaDisabled(w) == ~w.wsConnected

\* a click on the send button: onClick={handleSend}, when it is not disabled
ClickSend(input, attach) ==
    /\ ~SendButtonDisabled(World, input, attach)
    /\ Len(messages) < MaxMessages
    /\ Apply(handleSend(World, input, attach))
    /\ ev' = Event("clickSend", wsRef, Null)
    /\ tableStatus' = agentStatus'
    /\ chunkLog' = IF Len(messages') > Len(messages) THEN <<>> ELSE chunkLog
    /\ liveLog' = IF Len(messages') > Len(messages) THEN <<>> ELSE liveLog
    /\ stepLog' = IF Len(messages') > Len(messages) THEN <<>> ELSE stepLog
    /\ UNCHANGED <<phase, projectId>>

\* Enter without Shift in the textarea: handleKeyDown calls handleSend
PressEnter(input, attach) ==
    /\ ~TextareaDisabled(World)
    /\ Len(messages) < MaxMessages
    /\ Apply(handleSend(World, input, attach))
    /\ ev' = Event("pressEnter", wsRef, Null)
    /\ tableStatus' = agentStatus'
    /\ chunkLog' = IF Len(messages') > Len(messages) THEN <<>> ELSE chunkLog
    /\ liveLog' = IF Len(messages') > Len(messages) THEN <<>> ELSE liveLog
    /\ stepLog' = IF Len(messages') > Len(messages) THEN <<>> ELSE stepLog
    /\ UNCHANGED <<phase, projectId>>

InputFrames ==
    {f \in ChatFrames :
        \/ f.type = "agent_response"
        \/ (f.type = "agent_step" /\ f.step_type \in {"thinking", "tool_call"})}

NextInput ==
    \/ \E f \in InputFrames : SocketMessage(1, f)
    \/ \E input \in InputTexts : \E attach \in Attachments : ClickSend(input, attach)
    \/ \E input \in InputTexts : \E attach \in Attachments : PressEnter(input, attach)
    \/ StopAgent

SpecInput == InitChat /\ [][NextInput]_vars

(***************************************************************************)
(* Properties.                                                             *)
(***************************************************************************)
\* the sockets that are connecting or open
LiveSockets == {s \in SocketIds : sockets[s].readyState \in {"CONNECTING", "OPEN"}}

\* the manager's current socket is in one of the given states
CurrentIn(states) == wsRef # Null /\ sockets[wsRef].readyState \in states

\* C1: in every reachable state, whatever the interleaving of connect calls,
\* socket events, timer expiries, handle changes and unmounts, at most one
\* socket the manager created is connecting or open.
C1_AtMostOneLive == Cardinality(LiveSockets) <= 1

\* a second socket was created after a handle change closed the first, and the
\* first has not delivered its close event yet
C1_Witness ==
    /\ Len(sockets) = 2
    /\ sockets[1].readyState = "CLOSING"
    /\ sockets[2].readyState = "OPEN"

\* C2: a connect call made while the current socket is connecting or open
\* creates no socket, closes nothing and cancels no timer, so that the one
\* live socket stays the only one.
C2_ConnectIdempotent ==
    [][(ev'.op = "connect" /\ CurrentIn({"CONNECTING", "OPEN"}))
        => /\ UNCHANGED <<sockets, timers, hookVars, storeVars>>
           /\ LiveSockets' = {wsRef}]_vars

\* connect was called on the first socket while it was still connecting
C2_Witness ==
    /\ ev.op = "connect"
    /\ ev.sock = 1
    /\ wsRef = 1
    /\ sockets[1].readyState = "CONNECTING"

\* C3: after any sequence of inbound messages with no turn or stop in between,
\* agentStatus is the value the dispatch table assigns to the last
\* status-affecting message, and the status before the sequence when there is
\* none (tableStatus follows the table, and restarts at every turn and stop).
C3_StatusFollowsTable == agentStatus = tableStatus

\* a step without step_type arrived after a stream chunk: the status is still
\* that of the chunk
C3_Witness ==
    /\ ev.op = "message"
    /\ agentStatus = "working"
    /\ streamingContent # <<>>
    /\ Len(agentSteps) = 1
    /\ agentSteps[1].type = "agent_step"

\* the user message sendMessage appends for the given text
UserMessage(text) == [role |-> "user", content |-> text]

\* C4: a sendMessage issued while the connection is open transmits exactly one
\* frame, appends exactly one user message, empties streamingContent,
\* liveAssistantContent and the step list and sets agentStatus to thinking.
C4_SendOnOpenConnection ==
    [][(ev'.op = "sendMessage" /\ CurrentIn({"OPEN"}))
        => /\ Len(out') = 1
           /\ \E text \in UserTexts : messages' = Append(messages, UserMessage(text))
           /\ streamingContent' = <<>>
           /\ liveAssistantContent' = <<>>
           /\ agentSteps' = <<>>
           /\ agentStatus' = "thinking"]_vars

\* C5: sendMessage and stopAgent are no-ops whenever the manager's socket is
\* not open (absent, connecting, closing or closed): nothing is transmitted and
\* the history, the steps, the status and both buffers stay as they were.
C5_NoOpWhenNotOpen ==
    [][(ev'.op \in {"sendMessage", "stopAgent"} /\ ~CurrentIn({"OPEN"}))
        => /\ out' = <<>>
           /\ UNCHANGED <<messages, agentSteps, agentStatus, streamingContent,
                          liveAssistantContent>>]_vars

\* the pending watchdog timers armed by an event of socket s
WatchdogOf(s) ==
    {t \in timers : /\ t.kind = "heartbeat"
                    /\ t.id = heartbeatTimer
                    /\ t.sock = s
                    /\ t.delay = HEARTBEAT_TIMEOUT_MS}

\* C6: an open connection that receives nothing for the watchdog timeout after
\* its open event or its last message is force-closed by the watchdog: while
\* the current socket is open, the watchdog timer armed by its open event or
\* its last message is pending.
C6_OpenIsWatched == CurrentIn({"OPEN"}) => WatchdogOf(wsRef) # {}

\* the pending reconnect timers
ReconnectTimers == {t \in timers : t.kind = "reconnect"}

\* C7: after the close event of the manager's current socket, no reconnect is
\* scheduled when the code is 1000; exactly one is, with the 1 s delay, when
\* the code is 4000; exactly one is, with the 5 s delay, for any other code.
C7_ReconnectByCloseCode ==
    (ev.op = "close" /\ ev.sock = wsRef) =>
        IF ev.code = NORMAL_CLOSE_CODE
        THEN ReconnectTimers = {} /\ reconnectTimeout = Null
        ELSE /\ Cardinality(ReconnectTimers) = 1
             /\ \A t \in ReconnectTimers :
                    /\ t.id = reconnectTimeout
                    /\ t.sock = wsRef
                    /\ t.delay = IF ev.code = 4000 THEN 1000 ELSE 5000

\* the close event that follows the watchdog's close(4000) came with code 4000
C7_Witness ==
    /\ ev.op = "close"
    /\ ev.sock = wsRef
    /\ ev.code = 4000
    /\ Cardinality(ReconnectTimers) = 1

\* the current socket k has just delivered a close event with a code other
\* than 1000
ClosedAbnormally(k) ==
    /\ ev.op = "close"
    /\ ev.sock = k
    /\ ev.code # 1000
    /\ wsRef = k
    /\ phase = "mounted"

\* a socket was created after socket k, or the effect that owned k was cleaned
\* up (the handle changed or the view unmounted)
AttemptAfter(k) == Len(sockets) > k \/ wsRef # k

Maintaining == phase = "mounted" /\ projectId # NoHandle

\* C9 as claimed: while the view is mounted with a handle, the current socket
\* is connecting, open or closing, or a reconnect timer is pending, whatever
\* the close code.
C9_NeverAtRest ==
    Maintaining =>
        \/ CurrentIn({"CONNECTING", "OPEN", "CLOSING"})
        \/ ReconnectTimers # {}

\* C9 as amended: ... or the current socket was closed with code 1000.
C9_AtRestOnlyAfterNormalClose ==
    Maintaining =>
        \/ CurrentIn({"CONNECTING", "OPEN", "CLOSING"})
        \/ ReconnectTimers # {}
        \/ (CurrentIn({"CLOSED"}) /\ sockets[wsRef].closeCode = NORMAL_CLOSE_CODE)

\* the peer closed the current socket with code 1001 and a reconnect is pending
C9_Witness ==
    /\ Maintaining
    /\ CurrentIn({"CLOSED"})
    /\ sockets[wsRef].closeCode = 1001
    /\ ReconnectTimers # {}

\* C10: the close event of a superseded socket, delivered once a newer socket
\* is the manager's current one, neither clears the store's ws / wsConnected
\* nor cancels the pending watchdog timer.
C10_StaleCloseIgnored ==
    [][(ev'.op = "close" /\ wsRef # Null /\ ev'.sock < wsRef)
        => /\ UNCHANGED <<ws, wsConnected>>
           /\ {t \in timers : t.kind = "heartbeat"} \subseteq timers']_vars

\* C12: an unmount or a handle change cancels the pending reconnect timer and
\* the watchdog timer and closes the current socket, with code 1000 when it is
\* open; and once the view is unmounted no timer is pending in any later
\* state, whatever event arrives.
C12_Teardown ==
    [][/\ ev'.op \in {"unmount", "changeHandle"} =>
            /\ timers' = {}
            /\ reconnectTimeout' = Null
            /\ heartbeatTimer' = Null
            /\ CurrentIn({"CONNECTING", "OPEN"}) =>
                    sockets'[wsRef].readyState = "CLOSING"
            /\ CurrentIn({"OPEN"}) => sockets'[wsRef].closeCode = NORMAL_CLOSE_CODE
       /\ phase' = "unmounted" => timers' = {}]_vars

\* the first socket was lost, the reconnect created the second, the view
\* unmounted while the second was open, and its close event has arrived
C12_Witness ==
    /\ phase = "unmounted"
    /\ ev.op = "close"
    /\ ev.sock = 2
    /\ ev.code = NORMAL_CLOSE_CODE
    /\ sockets[1].closeCode = 1006
    /\ timers = {}

\* the pending watchdog timers
HeartbeatTimers == {t \in timers : t.kind = "heartbeat"}

\* C13: every decoded message on the open connection, whatever its type,
\* restarts the watchdog: the timer that was pending is cancelled and a new
\* one with the full timeout is armed, so that the one pending watchdog timer
\* is always the one of the last message.
C13_MessageRestartsWatchdog ==
    [][ev'.op = "message" =>
            /\ heartbeatTimer' # heartbeatTimer
            /\ heartbeatTimer \notin {t.id : t \in timers'}
            /\ Cardinality(HeartbeatTimers') = 1
            /\ \A t \in HeartbeatTimers' :
                    /\ t.id = heartbeatTimer'
                    /\ t.sock = ev'.sock
                    /\ t.delay = HEARTBEAT_TIMEOUT_MS]_vars

\* an error message, the first on the connection, has replaced the watchdog
\* timer armed by the open event
C13_Witness ==
    /\ ev.op = "message"
    /\ Len(messages) = 1
    /\ messages[1].role = "error"
    /\ heartbeatTimer # 1
    /\ Cardinality(HeartbeatTimers) = 1

\* C14: a payload that does not parse is dropped without effect: the history,
\* the steps, the status, both buffers and the ports are unchanged and the
\* socket stays open; the refs, the timers and the sockets are unchanged too,
\* so that the messages that follow are processed as if it had not arrived.
C14_MalformedDropped ==
    [][ev'.op = "malformed" =>
            /\ UNCHANGED <<messages, agentSteps, agentStatus, streamingContent,
                           liveAssistantContent, projectPorts>>
            /\ sockets'[ev'.sock].readyState = "OPEN"
            /\ UNCHANGED <<hookVars, envVars, storeVars>>]_vars

\* a payload that does not parse arrived in the middle of a turn, after a
\* stream chunk
C14_Witness ==
    /\ ev.op = "malformed"
    /\ sockets[ev.sock].readyState = "OPEN"
    /\ Len(messages) = 1
    /\ agentStatus = "working"

(***************************************************************************)
(* The two views of the step list (AgentActivity, ProcessDialog): each     *)
(* filters agentSteps by the type of the step.                             *)
(***************************************************************************)
ACTIVITY_TYPES == {"thinking", "tool_call", "tool_result", "error"}
DIALOG_TYPES == {"llm_text", "response"}

InActivityView(step) == step.type \in ACTIVITY_TYPES
InDialogView(step) == step.type \in DIALOG_TYPES

\* agentSteps.filter(s => ACTIVITY_TYPES.has(s.type))
activitySteps == SelectSeq(agentSteps, InActivityView)
\* agentSteps.filter(s => DIALOG_TYPES.has(s.type))
dialogSteps == SelectSeq(agentSteps, InDialogView)

\* C15: every step of the step list, whatever step_type its message carried or
\* omitted, is in exactly one of the Activity view and the Dialogue view.
C15_ExactlyOneView ==
    /\ Len(activitySteps) + Len(dialogSteps) = Len(agentSteps)
    /\ \A i \in 1..Len(agentSteps) :
            InActivityView(agentSteps[i]) # InDialogView(agentSteps[i])

\* C16: at any time streamingContent is the concatenation, in arrival order,
\* of the contents of the agent_stream_chunk messages received since the last
\* clearing event (agent_response, agent_stopped, error, an accepted turn),
\* a chunk without content or with an empty one adding nothing.
C16_ChunksAccumulate == streamingContent = chunkLog

\* after a turn and its response, two chunks with different contents arrived
C16_Witness ==
    /\ Len(messages) = 2
    /\ messages[2].role = "assistant"
    /\ streamingContent = <<"a", " ">>

\* the chat message a terminal message appends
TerminalMessage(f) ==
    CASE f.type = "agent_response" -> [role |-> "assistant", content |-> f.content]
      [] f.type = "agent_stopped" ->
            [role |-> "assistant",
             content |-> IF f.content \in {Undefined, <<>>}
                         THEN <<"Agent ostanovlen">> ELSE f.content]
      [] f.type = "error" -> [role |-> "error", content |-> f.content]

\* the status a terminal message sets
TerminalStatus(f) ==
    CASE f.type = "agent_response" -> "done"
      [] f.type = "agent_stopped" -> "idle"
      [] f.type = "error" -> "error"

\* C17: each terminal message appends exactly one chat message and empties
\* both buffers: agent_response one of role assistant with its content, status
\* done; agent_stopped one of role assistant with its content, or the fallback
\* text when it has none, status idle; error one of role error, status error.
C17_TerminalMessage ==
    [][\A f \in TerminalFrames : SocketMessage(1, f) =>
            /\ messages' = Append(messages, TerminalMessage(f))
            /\ agentStatus' = TerminalStatus(f)
            /\ streamingContent' = <<>>
            /\ liveAssistantContent' = <<>>]_vars

\* an agent_stopped without content ended a turn: the fallback text is in the
\* history after the user's message
C17_Witness ==
    /\ ev.op = "message"
    /\ Len(messages) = 2
    /\ messages[1].role = "user"
    /\ messages[2] = [role |-> "assistant", content |-> <<"Agent ostanovlen">>]
    /\ agentStatus = "idle"
    /\ streamingContent = <<>>
    /\ liveAssistantContent = <<>>

\* C18: a stopAgent issued while the connection is open transmits exactly one
\* stop directive and sets agentStatus to idle in the same step; an
\* agent_stopped message that arrives later still appends its chat message and
\* leaves the status idle.
C18_StopOnOpenConnection ==
    [][/\ (ev'.op = "stopAgent" /\ CurrentIn({"OPEN"})) =>
            /\ Len(out') = 1
            /\ out'[1] = [sock |-> wsRef,
                          frame |-> [kind |-> "stop", message |-> <<>>]]
            /\ agentStatus' = "idle"
       /\ \A s \in SocketIds : \A f \in InboundFrames :
            (f.json = "object" /\ f.type = "agent_stopped" /\ SocketMessage(s, f)) =>
                /\ Len(messages') = Len(messages) + 1
                /\ messages'[Len(messages')].role = "assistant"
                /\ agentStatus' = "idle"]_vars

\* a turn is outstanding: a sendMessage was accepted and no terminal message
\* was processed since.  Only these write the history, an accepted
\* sendMessage a message of role user and a terminal message one of role
\* assistant or error, so the turn is outstanding when the last message of the
\* history is the user's.
TurnOutstanding == messages # <<>> /\ messages[Len(messages)].role = "user"

\* C19: agentStatus is thinking or working only while a turn is outstanding.
C19_BusyOnlyWhileOutstanding ==
    agentStatus \in {"thinking", "working"} => TurnOutstanding

\* C20: the end-to-end scenario.  On the open connection, a turn sent while the
\* status is idle sets it to thinking; a thinking step that follows fills
\* liveAssistantContent and keeps the status thinking; a tool_call step sets
\* the status to working and adds a step that is in the Activity view and not
\* in the Dialogue view; the response "done" appends the assistant's message
\* "done", empties both buffers and sets the status to done.
C20_Scenario ==
    [][/\ \A text \in UserTexts :
            (agentStatus = "idle" /\ SendMessage(text)) =>
                /\ agentStatus' = "thinking"
                /\ messages' = Append(messages, UserMessage(text))
       /\ \A f \in ThinkingSteps :
            (agentStatus = "thinking" /\ TurnMessage(1, f)) =>
                /\ liveAssistantContent' =
                        IF f.content = Undefined THEN <<"Dumayu...">> ELSE f.content
                /\ agentStatus' = "thinking"
       /\ TurnMessage(1, ToolCallStep) =>
                /\ agentStatus' = "working"
                /\ Len(agentSteps') = Len(agentSteps) + 1
                /\ InActivityView(agentSteps'[Len(agentSteps')])
                /\ ~InDialogView(agentSteps'[Len(agentSteps')])
                /\ Len(activitySteps') = Len(activitySteps) + 1
                /\ dialogSteps' = dialogSteps
       /\ TurnMessage(1, ResponseDone) =>
                /\ messages' = Append(messages,
                                [role |-> "assistant", content |-> <<"done">>])
                /\ streamingContent' = <<>>
                /\ liveAssistantContent' = <<>>
                /\ agentStatus' = "done"]_vars

\* the scenario has run: the turn, then the thinking step and the tool call,
\* then the response
C20_Witness ==
    /\ ev.op = "message"
    /\ messages = <<UserMessage(<<"a">>),
                    [role |-> "assistant", content |-> <<"done">>]>>
    /\ Len(agentSteps) = 2
    /\ agentSteps[1].type = "thinking"
    /\ agentSteps[2].type = "tool_call"
    /\ agentStatus = "done"
    /\ liveAssistantContent = <<>>

\* the turns started so far: the user messages of the history
TurnsStarted == Cardinality({i \in 1..Len(messages) : messages[i].role = "user"})

\* C21: once a new turn has been started after an earlier one, no message that
\* arrives (a late message of the earlier turn among them: messages carry no
\* turn id) moves agentStatus directly from idle to error or directly from
\* error to done.
C21_NoForbiddenTransition ==
    [][(TurnsStarted >= 2 /\ ev'.op = "message") =>
            /\ ~(agentStatus = "idle" /\ agentStatus' = "error")
            /\ ~(agentStatus = "error" /\ agentStatus' = "done")]_vars

\* C22: once an agent_response is processed, the Dialogue view computed from
\* the store has an entry of kind response that carries the response.
C22_ResponseInDialogue ==
    [][\A f \in ChatFrames :
            (f.type = "agent_response" /\ SocketMessage(1, f)) =>
                \E i \in 1..Len(dialogSteps') :
                    /\ dialogSteps'[i].type = "response"
                    /\ dialogSteps'[i].content = f.content]_vars

\* C23: liveAssistantContent is replaced, never appended: at any time it is
\* the trimmed content of the last thinking or llm_text step received since
\* the last clearing event (a terminal message, an accepted turn), the
\* placeholder for a thinking step without content, and empty when there is no
\* such step; the other steps and the stream chunks leave it as it is.
C23_LiveReplaced == liveAssistantContent = liveLog

\* a thinking step with padded content came after another step of the same
\* turn that had set the placeholder
C23_Witness ==
    /\ Len(agentSteps) = 2
    /\ agentSteps[1].content = Undefined
    /\ agentSteps[1].type = "thinking"
    /\ agentSteps[2].content = Padded
    /\ liveAssistantContent = <<"a">>

\* the Step handleMessage makes of an agent_step message
StepOf(f) ==
    [type |-> IF f.step_type # "" THEN f.step_type ELSE f.type,
     step_type |-> f.step_type,
     content |-> f.content]

\* C24: the step list is the sequence of the agent_step messages processed
\* since the last turn the store accepted: every such message appends one
\* Step at the end, and no other message, no stop and no connection event
\* changes the list.
C24_StepsAppendOnly ==
    /\ Len(agentSteps) = Len(stepLog)
    /\ \A i \in 1..Len(agentSteps) : agentSteps[i] = StepOf(stepLog[i])

\* two different steps of a turn are in the list in their order of arrival,
\* and the socket that delivered them is closed
C24_Witness ==
    /\ Len(agentSteps) = 2
    /\ agentSteps[1].type = "tool_call"
    /\ agentSteps[2].type = "tool_result"
    /\ messages # <<>>
    /\ ev.op = "close"

\* C25: the chat history is append-only: over every inbound message, turn,
\* stop and connection event the history before the event is a prefix of the
\* history after it.
C25_HistoryAppendOnly ==
    [][/\ Len(messages') >= Len(messages)
       /\ SubSeq(messages', 1, Len(messages)) = messages]_vars

\* a response was appended to a history that held a turn, on the socket the
\* reconnect created
C25_Witness ==
    /\ ev.op = "message"
    /\ ev.sock = 2
    /\ Len(messages) = 2
    /\ messages[1].role = "user"
    /\ messages[2].role = "assistant"

\* C26: the reconnect delay is two-valued and never grows: every scheduled
\* reconnect waits exactly 1 s or exactly 5 s, whichever attempt it is.
C26_TwoDelays ==
    \A t \in ReconnectTimers :
        t.delay \in {HEARTBEAT_RECONNECT_MS, RECONNECT_MS}

\* the socket of a reconnect attempt closed in its turn and the next attempt
\* is scheduled
C26_Witness ==
    /\ ev.op = "close"
    /\ ev.sock = 2
    /\ ev.code = 1001
    /\ \E t \in ReconnectTimers : t.sock = 2 /\ t.delay = RECONNECT_MS

\* C27: timers never accumulate: in every reachable state at most one
\* reconnect timer and at most one watchdog timer are pending.
C27_TimersNeverAccumulate ==
    /\ Cardinality(ReconnectTimers) <= 1
    /\ Cardinality(HeartbeatTimers) <= 1

\* a message on the socket of a later attempt re-armed the watchdog its open
\* event had armed, and one watchdog timer is pending
C27_Witness ==
    /\ ev.op = "message"
    /\ ev.sock = 2
    /\ Cardinality(HeartbeatTimers) = 1
    /\ ReconnectTimers = {}

\* C28: after the open event of the current socket the store's handle is that
\* socket, wsConnected is true, the connecting flag is cleared and the
\* watchdog is armed; after the close event of the current socket the handle
\* is null, wsConnected is false and no watchdog is pending.
C28_OpenAndCloseOfCurrent ==
    /\ (ev.op = "open" /\ ev.sock = wsRef) =>
            /\ ws = ev.sock
            /\ wsConnected
            /\ ~isConnectingRef
            /\ \E t \in HeartbeatTimers : t.id = heartbeatTimer /\ t.sock = ev.sock
    /\ (ev.op = "close" /\ ev.sock = wsRef) =>
            /\ ws = Null
            /\ ~wsConnected
            /\ HeartbeatTimers = {}

\* the socket a reconnect created has opened and is published and watched
C28_Witness ==
    /\ ev.op = "open"
    /\ ev.sock = 2
    /\ wsRef = 2
    /\ ws = 2
    /\ wsConnected
    /\ HeartbeatTimers # {}

\* C29: a heartbeat, user_message, connected, ports_update or unknown message
\* leaves the history, the steps, the status and both buffers unchanged;
\* connected and ports_update change nothing in the store but the port
\* mapping, the others nothing in the store at all.
C29_PassiveMessages ==
    [][\A f \in PassiveFrames :
            SocketMessage(1, f) =>
                /\ UNCHANGED <<messages, agentSteps, agentStatus,
                               streamingContent, liveAssistantContent>>
                /\ UNCHANGED <<ws, wsConnected>>
                /\ f.type \notin {"connected", "ports_update"} =>
                        UNCHANGED projectPorts]_vars

\* ports were announced in the middle of a turn: the turn's message, step,
\* buffers and status are those of the turn
C29_Witness ==
    /\ ev.op = "message"
    /\ projectPorts = "p1"
    /\ agentStatus = "thinking"
    /\ Len(messages) = 1
    /\ Len(agentSteps) = 1
    /\ streamingContent # <<>>
    /\ liveAssistantContent # <<>>

\* C30: the close event of a socket that is no longer the current socket
\* never schedules a reconnect, whatever its code; a reconnect is scheduled
\* only by the close event of the socket the manager currently holds.
C30_StaleCloseNeverReconnects ==
    [][/\ (ev'.op = "close" /\ ev'.sock # wsRef) =>
            /\ ReconnectTimers' \subseteq ReconnectTimers
            /\ reconnectTimeout' = reconnectTimeout
       /\ ~(ReconnectTimers' \subseteq ReconnectTimers) =>
            /\ ev'.op = "close"
            /\ ev'.sock = wsRef
            /\ wsRef' = wsRef]_vars

\* a superseded socket closed abnormally while its successor is current, and
\* no reconnect is scheduled
C30_Witness ==
    /\ ev.op = "close"
    /\ ev.code \in AbnormalCodes
    /\ wsRef # Null
    /\ ev.sock # wsRef
    /\ ReconnectTimers = {}
    /\ reconnectTimeout = Null

\* C31: the watchdog is reset on every inbound frame, one that fails to decode
\* included: a malformed payload restarts the watchdog timer as a message
\* does, so the timer pending after it is a new one, armed for its socket.
C31_EveryFrameRestartsWatchdog ==
    [][ev'.op \in {"message", "malformed", "null"} =>
            /\ heartbeatTimer' # heartbeatTimer
            /\ \E t \in HeartbeatTimers' :
                    t.id = heartbeatTimer' /\ t.sock = ev'.sock]_vars

\* C32: the store's view of the connection matches the manager: in every
\* reachable state wsConnected is true, with a published handle, exactly when
\* the published handle is the manager's current socket and that socket is
\* open.
C32_StoreMatchesManager ==
    (wsConnected /\ ws # Null) <=>
        (ws # Null /\ ws = wsRef /\ sockets[wsRef].readyState = "OPEN")

\* C33: whenever agentStatus is done or error, streamingContent and
\* liveAssistantContent are both empty, after any sequence of inbound messages,
\* turns and stops.
C33_BuffersEmptyWhenEnded ==
    agentStatus \in {"done", "error"} =>
        streamingContent = <<>> /\ liveAssistantContent = <<>>

\* an error ended a turn whose thinking step had filled the live text
C33_Witness ==
    /\ agentStatus = "error"
    /\ Len(messages) = 2
    /\ messages[2].role = "error"
    /\ Len(agentSteps) = 1
    /\ agentSteps[1].type = "thinking"
    /\ streamingContent = <<>>
    /\ liveAssistantContent = <<>>

\* C34: stopAgent changes only agentStatus: the history, the step list and
\* both buffers are after it exactly what they were, so that buffers filled
\* during the turn are still non-empty, with status idle.
C34_StopChangesOnlyStatus ==
    [][ev'.op = "stopAgent" =>
            /\ UNCHANGED <<messages, agentSteps, streamingContent,
                           liveAssistantContent>>
            /\ UNCHANGED <<ws, wsConnected, projectPorts>>
            /\ agentStatus' \in {"idle", agentStatus}]_vars

\* a turn was stopped after a chunk and a thinking step: both buffers are
\* still filled and the status is idle
C34_Witness ==
    /\ ev.op = "stopAgent"
    /\ agentStatus = "idle"
    /\ Len(messages) = 1
    /\ Len(agentSteps) = 1
    /\ streamingContent # <<>>
    /\ liveAssistantContent # <<>>

\* the events of the connection's life
LifecycleOps ==
    {"mount", "changeHandle", "unmount", "connect", "open", "peerClose", "close",
     "heartbeatFire", "reconnectFire"}

\* C35: the events of the connection's life (open, close, error, watchdog
\* expiry, reconnect timer, connect) leave the history, the steps, the status
\* and both buffers unchanged: a connection lost while the status is thinking
\* or working leaves it so across the reconnect.
C35_LifecycleKeepsChat ==
    [][ev'.op \in LifecycleOps =>
            UNCHANGED <<messages, agentSteps, agentStatus, streamingContent,
                        liveAssistantContent>>]_vars

\* the socket the reconnect created has opened while the turn started on the
\* first socket is still shown as running, with both buffers filled
C35_Witness ==
    /\ ev.op = "open"
    /\ ev.sock = 2
    /\ agentStatus \in {"thinking", "working"}
    /\ Len(messages) = 1
    /\ Len(agentSteps) = 1
    /\ streamingContent # <<>>
    /\ liveAssistantContent # <<>>

\* C36: a reconnect timer is pending only while no connection is live: in
\* every reachable state with a pending reconnect timer the manager's current
\* socket is neither connecting nor open.
C36_ReconnectOnlyWhileDown ==
    ReconnectTimers # {} => ~CurrentIn({"CONNECTING", "OPEN"})

\* the socket of a reconnect attempt failed before it opened and the next
\* attempt is scheduled; the current socket is that closed socket
C36_Witness ==
    /\ ReconnectTimers # {}
    /\ wsRef = 2
    /\ sockets[2].readyState = "CLOSED"
    /\ ev.op = "close"
    /\ ev.code \in AbnormalCodes

\* C37: after the handle has changed from A to B, or the view has unmounted,
\* no socket for A is created again: no reconnect timer armed for A survives
\* the change and no event of A's old socket leads to a connect for A.  A
\* socket is connecting when it is created, so: in every reachable state every
\* pending reconnect timer and every connecting or open socket belongs to the
\* handle the view is mounted with.
C37_NoSocketForOldHandle ==
    /\ \A t \in ReconnectTimers : phase = "mounted" /\ t.handle = projectId
    /\ \A s \in LiveSockets : phase = "mounted" /\ sockets[s].projectId = projectId

\* the handle changed from A to B while A's socket was connecting; A's socket
\* has closed abnormally, no reconnect is scheduled and B's socket is live
C37_Witness ==
    /\ projectId = "B"
    /\ Len(sockets) = 2
    /\ sockets[1].projectId = "A"
    /\ sockets[2].projectId = "B"
    /\ ev.op = "close"
    /\ ev.sock = 1
    /\ ev.code \in AbnormalCodes
    /\ ReconnectTimers = {}
    /\ LiveSockets = {2}

\* C38: the chat input never starts a new turn while the agent is acting:
\* neither the send button nor the Enter key invokes sendMessage while
\* agentStatus is thinking or working, so the history and the step list of a
\* running turn are not touched by a second send.
C38_NoSendWhileActing ==
    [][(ev'.op \in {"clickSend", "pressEnter"} /\ agentStatus \in {"thinking", "working"})
            => UNCHANGED <<messages, agentSteps>>]_vars

====
